---- MODULE Spec2Model ----
(***************************************************************************)
(* The currency converter backend (server.js): an Express process with two *)
(* routes, GET /api/rates/:baseCurrency, which proxies one request to the  *)
(* upstream exchange rate API, and GET /api/health.                        *)
(*                                                                         *)
(* The rates handler is an async function.  It runs without interruption   *)
(* from one await to the next, so every segment between two awaits is one  *)
(* action; the promises it awaits (fetch, response.text, response.json)    *)
(* are settled by the environment, resolved or rejected.                   *)
(*                                                                         *)
(* JavaScript values are tagged records: t is the result of typeof (with   *)
(* "null" for null), v the value.  A JavaScript string is a TLA+ string,   *)
(* whose Len is the number of UTF-16 code units, as String.length is.      *)
(* A JSON number is an integer here: the handler never computes with one.  *)
(***************************************************************************)
EXTENDS Integers, Sequences, FiniteSets, TLC

\* ------------------------------------------------------------ bounds
MaxReq == 2      \* rates requests the process serves (concurrently in SpecConc)
MaxClock == 1    \* the clock runs from 0 to MaxClock
MaxHealth == 2   \* health probes served

Requests == 1..MaxReq

\* ------------------------------------------------------------ JavaScript values
Undefined == [t |-> "undefined"]
Null == [t |-> "null"]
Str(s) == [t |-> "string", v |-> s]
Num(n) == [t |-> "number", v |-> n]
Bool(b) == [t |-> "boolean", v |-> b]
Obj(f) == [t |-> "object", v |-> f]

\* ToBoolean: undefined, null, false, 0 and "" are falsy, every object is truthy.
Truthy(x) ==
    CASE x.t = "undefined" -> FALSE
      [] x.t = "null" -> FALSE
      [] x.t = "boolean" -> x.v
      [] x.t = "number" -> x.v # 0
      [] x.t = "string" -> x.v # ""
      [] OTHER -> TRUE

\* a || b
JsOr(a, b) == IF Truthy(a) THEN a ELSE b

\* data[k] on a value that is not null or undefined: a missing property, and any
\* property of a primitive, is undefined.
Get(data, k) ==
    IF data.t = "object" /\ k \in DOMAIN data.v THEN data.v[k] ELSE Undefined

\* data.result throws a TypeError when data is null (JSON cannot carry undefined).
PropertyReadThrows(data) == data.t \in {"null", "undefined"}

TypeErrorMessage == "Cannot read properties of null (reading 'result')"

\* new Date().toISOString() at clock value n: a non-empty string that changes
\* with the clock.
toISOString(n) == "1970-01-01T00:00:0" \o ToString(n) \o ".000Z"

\* ------------------------------------------------------------ the requests drawn
\* req.params.baseCurrency: Express hands the handler a non-empty string.
BaseCurrencies == {"US", "USD", "XXX", "EURO"}

\* process.env.EXCHANGE_RATE_API_KEY: unset, set to the empty string, or set.
ApiKeys == {Undefined, Str(""), Str("secret")}

\* What the upstream may answer.  response.status with response.statusText:
Replies == {<<200, "OK">>, <<203, "Non-Authoritative Information">>,
            <<404, "Not Found">>, <<503, "Service Unavailable">>}

\* The messages of the errors fetch, response.text and response.json reject with.
FetchErrors == {"request to https://open.er-api.com/v6/latest failed, reason: ECONNREFUSED",
                "network timeout"}
BodyErrors == {"Premature close"}
ParseErrors == {"invalid json response body", "Premature close"}

Payload(result, errorType, rates, baseCode, time) ==
    Obj(("result" :> result) @@ ("error-type" :> errorType) @@ ("rates" :> rates)
        @@ ("base_code" :> baseCode) @@ ("time_last_update_utc" :> time))

EmptyMapping == Obj(<<>>)
SomeRates == Obj(("EUR" :> Num(9)) @@ ("GBP" :> Num(7)))

\* Every body the upstream's JSON may parse to: an object whose five fields the
\* handler reads are absent (undefined), null, or a value of either the expected
\* or of another type; and bodies that are no object at all.
ResultValues == {Undefined, Str("success"), Str("error")}
ErrorTypeValues == {Undefined, Null, Str(""), Str("unknown-code"), Num(404)}
RatesValues == {Undefined, Null, Bool(FALSE), Num(0), Num(5), Str(""), EmptyMapping, SomeRates}
BaseCodeValues == {Undefined, Null, Str(""), Str("USD")}
TimeValues == {Undefined, Str(""), Str("Mon, 15 Jan 2024 00:00:01 +0000")}

Payloads ==
    { Payload(r, e, ra, b, t) :
        r \in ResultValues, e \in ErrorTypeValues, ra \in RatesValues,
        b \in BaseCodeValues, t \in TimeValues }
    \cup {Null, Num(5), EmptyMapping}

\* The bodies drawn when several requests are in flight.
ConcPayloads ==
    { Payload(Str("success"), Undefined, SomeRates, Str("USD"), Undefined),
      Payload(Str("error"), Str("unknown-code"), Undefined, Undefined, Undefined),
      Null }
ConcBaseCurrencies == {"USD", "EURO"}
ConcReplies == {<<200, "OK">>, <<404, "Not Found">>}

\* ------------------------------------------------------------ state
VARIABLES
    apiKey,          \* process.env.EXCHANGE_RATE_API_KEY
    req,             \* req[r]: the handler invocation serving request r
    upstreamCalls,   \* calls of fetch the process has made
    now,             \* the clock new Date() reads
    health           \* the health probes served and the last answer

vars == <<apiKey, req, upstreamCalls, now, health>>

NotYet == [t |-> "pending"]

\* pc: "idle" (not received), "fetch", "text", "json" (awaiting that promise), "done".
\* response: <<status, statusText>> of the upstream's answer; data: the parsed
\* body; sent: the responses written to the client; calls: fetches issued.
IdleRequest ==
    [pc |-> "idle", baseCurrency |-> "", response |-> <<>>, data |-> NotYet,
     caught |-> "", sent |-> <<>>, calls |-> 0]

Init ==
    /\ apiKey \in ApiKeys
    /\ req = [r \in Requests |-> IdleRequest]
    /\ upstreamCalls = 0
    /\ now = 0
    /\ health = [served |-> 0, sent |-> <<>>]

\* ------------------------------------------------------------ the rates handler
Response(status, body) == [status |-> status, body |-> body]

\* The length test loosened: shorter codes pass.
AtMostThreeCodeUnits(baseCurrency) ==
    ~ (baseCurrency = "" \/ Len(baseCurrency) > 3)

\* server.js:48, negated: the code is accepted when it is truthy, a string and
\* of length 3.
ValidBaseCurrency(baseCurrency) ==
    ~ (baseCurrency = "" \/ Len(baseCurrency) # 3)

\* The configuration check dropped.
KeyNeverMissing(key) == FALSE

\* server.js:59: if (!apiKey)
KeyMissing(key) == ~ Truthy(key)

\* server.js:90: response.ok, a status from 200 to 299
Ok(status) == status >= 200 /\ status <= 299

InvalidBaseCurrencyResponse ==
    Response(400, [success |-> FALSE,
                   error |-> Str("Invalid base currency code. Must be a 3-letter code (e.g., USD, EUR)")])

ConfigurationErrorResponse ==
    Response(500, [success |-> FALSE,
                   error |-> Str("Server configuration error: API key not set")])

\* The upstream's status replaced by 500.
UpstreamErrorAs500(status, statusText) ==
    Response(500, [success |-> FALSE,
                   error |-> Str("Failed to fetch exchange rates: " \o statusText)])

UpstreamErrorResponse(status, statusText) ==
    Response(status, [success |-> FALSE,
                      error |-> Str("Failed to fetch exchange rates: " \o statusText)])

ApiErrorResponse(data) ==
    Response(400, [success |-> FALSE,
                   error |-> JsOr(Get(data, "error-type"), Str("Unknown API error"))])

MissingRatesResponse ==
    Response(500, [success |-> FALSE,
                   error |-> Str("Invalid response from exchange rate API")])

\* base always the requested code.
SuccessResponseRequestedBase(baseCurrency, data, clock) ==
    Response(200, [success |-> TRUE,
                   base |-> Str(baseCurrency),
                   date |-> JsOr(Get(data, "time_last_update_utc"), Str(toISOString(clock))),
                   rates |-> Get(data, "rates")])

SuccessResponse(baseCurrency, data, clock) ==
    Response(200, [success |-> TRUE,
                   base |-> JsOr(Get(data, "base_code"), Str(baseCurrency)),
                   date |-> JsOr(Get(data, "time_last_update_utc"), Str(toISOString(clock))),
                   rates |-> Get(data, "rates")])

\* server.js:128-135, the catch block
CatchResponse(message) ==
    Response(500, [success |-> FALSE,
                   error |-> Str("Internal server error: " \o message)])

\* The rates check moved before the check of result.
ReshapeRatesFirst(baseCurrency, data, clock) ==
    IF ~ Truthy(Get(data, "rates")) THEN MissingRatesResponse
    ELSE IF Get(data, "result") = Str("error") THEN ApiErrorResponse(data)
    ELSE SuccessResponse(baseCurrency, data, clock)

\* The rates check dropped.
ReshapeWithoutRatesCheck(baseCurrency, data, clock) ==
    IF Get(data, "result") = Str("error") THEN ApiErrorResponse(data)
    ELSE SuccessResponse(baseCurrency, data, clock)

\* server.js:102-126: what the handler answers to a parsed body it could read.
Reshape(baseCurrency, data, clock) ==
    IF Get(data, "result") = Str("error") THEN ApiErrorResponse(data)
    ELSE IF ~ Truthy(Get(data, "rates")) THEN MissingRatesResponse
    ELSE SuccessResponse(baseCurrency, data, clock)

Finish(r, response) ==
    [req EXCEPT ![r].pc = "done", ![r].sent = Append(@, response)]

\* Requests are numbered in the order they arrive.
Arrives(r) ==
    /\ req[r].pc = "idle"
    /\ \A q \in Requests : q < r => req[q].pc # "idle"

\* server.js:43-87: the handler up to its first await.
RatesRequest(r, baseCurrency) ==
    /\ Arrives(r)
    /\ LET got == [req EXCEPT ![r].baseCurrency = baseCurrency] IN
       IF ~ ValidBaseCurrency(baseCurrency)
       THEN /\ req' = [got EXCEPT ![r].pc = "done",
                                  ![r].sent = Append(@, InvalidBaseCurrencyResponse)]
            /\ UNCHANGED upstreamCalls
       ELSE IF KeyMissing(apiKey)
       THEN /\ req' = [got EXCEPT ![r].pc = "done",
                                  ![r].sent = Append(@, ConfigurationErrorResponse)]
            /\ UNCHANGED upstreamCalls
       ELSE /\ req' = [got EXCEPT ![r].pc = "fetch", ![r].calls = @ + 1]
            /\ upstreamCalls' = upstreamCalls + 1
    /\ UNCHANGED <<apiKey, now, health>>

\* server.js:82-100: fetch resolved; the handler goes on to read the body, as
\* text when the status is no success and as JSON when it is.
FetchResolve(r, reply) ==
    /\ req[r].pc = "fetch"
    /\ req' = [req EXCEPT ![r].response = reply,
                          ![r].pc = IF ~ Ok(reply[1]) THEN "text" ELSE "json"]
    /\ UNCHANGED <<apiKey, upstreamCalls, now, health>>

\* A rejected fetch tried again.
FetchRejectRetry(r, message) ==
    /\ req[r].pc = "fetch"
    /\ req[r].calls <= MaxReq
    /\ req' = [req EXCEPT ![r].caught = message, ![r].calls = @ + 1]
    /\ upstreamCalls' = upstreamCalls + 1
    /\ UNCHANGED <<apiKey, now, health>>

\* server.js:82, 128-135: fetch rejected.
FetchReject(r, message) ==
    /\ req[r].pc = "fetch"
    /\ req' = [Finish(r, CatchResponse(message)) EXCEPT ![r].caught = message]
    /\ UNCHANGED <<apiKey, upstreamCalls, now, health>>

\* server.js:91-96: the body of an answer that is no success was read.
TextResolve(r) ==
    /\ req[r].pc = "text"
    /\ req' = Finish(r, UpstreamErrorResponse(req[r].response[1], req[r].response[2]))
    /\ UNCHANGED <<apiKey, upstreamCalls, now, health>>

\* server.js:91, 128-135: reading it failed.
TextReject(r, message) ==
    /\ req[r].pc = "text"
    /\ req' = [Finish(r, CatchResponse(message)) EXCEPT ![r].caught = message]
    /\ UNCHANGED <<apiKey, upstreamCalls, now, health>>

\* data declared without const: one variable of the process, which every handler
\* awaiting its body reads.
JsonResolveSharedData(r, data) ==
    /\ req[r].pc = "json"
    /\ LET all == [q \in Requests |->
                     IF req[q].pc = "json" THEN [req[q] EXCEPT !.data = data] ELSE req[q]]
       IN req' = IF PropertyReadThrows(data)
                 THEN [all EXCEPT ![r].pc = "done", ![r].caught = TypeErrorMessage,
                           ![r].sent = Append(@, CatchResponse(TypeErrorMessage))]
                 ELSE [all EXCEPT ![r].pc = "done",
                           ![r].sent = Append(@, Reshape(req[r].baseCurrency, data, now))]
    /\ UNCHANGED <<apiKey, upstreamCalls, now, health>>

\* server.js:100-135: the body parsed to data.
JsonResolve(r, data) ==
    /\ req[r].pc = "json"
    /\ req' = IF PropertyReadThrows(data)
              THEN [Finish(r, CatchResponse(TypeErrorMessage))
                       EXCEPT ![r].data = data, ![r].caught = TypeErrorMessage]
              ELSE [Finish(r, Reshape(req[r].baseCurrency, data, now))
                       EXCEPT ![r].data = data]
    /\ UNCHANGED <<apiKey, upstreamCalls, now, health>>

\* server.js:100, 128-135: the body could not be read or parsed.
JsonReject(r, message) ==
    /\ req[r].pc = "json"
    /\ req' = [Finish(r, CatchResponse(message)) EXCEPT ![r].caught = message]
    /\ UNCHANGED <<apiKey, upstreamCalls, now, health>>

\* ------------------------------------------------------------ the health probe
HealthResponse(clock) ==
    Response(200, [success |-> TRUE,
                   message |-> Str("Currency converter API is running"),
                   timestamp |-> Str(toISOString(clock))])

\* The probe asking the upstream.
HealthThroughUpstream ==
    /\ health.served < MaxHealth
    /\ health' = [served |-> health.served + 1, sent |-> <<HealthResponse(now)>>]
    /\ upstreamCalls' = upstreamCalls + 1
    /\ UNCHANGED <<apiKey, req, now>>

\* server.js:142-148
Health ==
    /\ health.served < MaxHealth
    /\ health' = [served |-> health.served + 1, sent |-> <<HealthResponse(now)>>]
    /\ UNCHANGED <<apiKey, req, upstreamCalls, now>>

\* Time passes.
Tick ==
    /\ now < MaxClock
    /\ now' = now + 1
    /\ UNCHANGED <<apiKey, req, upstreamCalls, health>>

\* ------------------------------------------------------------ specifications
\* One rates request, every answer of the upstream.
Next ==
    \/ \E bc \in BaseCurrencies : RatesRequest(1, bc)
    \/ \E reply \in Replies : FetchResolve(1, reply)
    \/ \E m \in FetchErrors : FetchReject(1, m)
    \/ TextResolve(1)
    \/ \E m \in BodyErrors : TextReject(1, m)
    \/ \E data \in Payloads : JsonResolve(1, data)
    \/ \E m \in ParseErrors : JsonReject(1, m)
    \/ Health
    \/ Tick

Spec == Init /\ [][Next]_vars

\* MaxReq rates requests in flight together, representative answers.
NextConc ==
    \/ \E r \in Requests, bc \in ConcBaseCurrencies : RatesRequest(r, bc)
    \/ \E r \in Requests, reply \in ConcReplies : FetchResolve(r, reply)
    \/ \E r \in Requests, m \in FetchErrors : FetchReject(r, m)
    \/ \E r \in Requests : TextResolve(r)
    \/ \E r \in Requests, m \in BodyErrors : TextReject(r, m)
    \/ \E r \in Requests, data \in ConcPayloads : JsonResolve(r, data)
    \/ \E r \in Requests, m \in ParseErrors : JsonReject(r, m)
    \/ Health
    \/ Tick

SpecConc == Init /\ [][NextConc]_vars

\* ------------------------------------------------------------ claims
Received(r) == req[r].pc # "idle"
Done(r) == req[r].pc = "done"
Answer(r) == req[r].sent[1]
ErrorAnswer(r, status, text) ==
    /\ req[r].sent = <<Response(status, [success |-> FALSE, error |-> Str(text)])>>

InvalidText == "Invalid base currency code. Must be a 3-letter code (e.g., USD, EUR)"

\* C1: a rates request whose baseCurrency is not of length 3 is answered 400 with
\* {success:false, error:"Invalid base currency code..."} and makes no upstream
\* call, whatever the API key and whatever the upstream would do.
C1_InvalidCodeRejected ==
    \A r \in Requests :
        (Received(r) /\ Len(req[r].baseCurrency) # 3) =>
            /\ Done(r)
            /\ ErrorAnswer(r, 400, InvalidText)
            /\ req[r].calls = 0
            /\ req[r].response = <<>>

C1_Witness ==
    \E r \in Requests :
        /\ Done(r) /\ Len(req[r].baseCurrency) = 4
        /\ Truthy(apiKey)
        /\ Answer(r).status = 400

\* C2: every rates request whose baseCurrency has length 3 issues the upstream GET,
\* in every configuration (the API key being optional).
C2_ValidCodeCallsUpstream ==
    \A r \in Requests :
        (Received(r) /\ Len(req[r].baseCurrency) = 3) => req[r].calls = 1

\* C3: with EXCHANGE_RATE_API_KEY absent, every rates request with a baseCurrency
\* of length 3 is answered 500 "Server configuration error: API key not set"
\* without an upstream call; a baseCurrency of another length is still answered 400.
C3_MissingKeyFailsRequest ==
    apiKey = Undefined =>
        /\ upstreamCalls = 0
        /\ \A r \in Requests :
              Received(r) =>
                 /\ Done(r)
                 /\ req[r].calls = 0
                 /\ IF Len(req[r].baseCurrency) = 3
                    THEN ErrorAnswer(r, 500, "Server configuration error: API key not set")
                    ELSE Answer(r).status = 400

C3_Witness ==
    \E r \in Requests :
        /\ apiKey = Undefined
        /\ Done(r) /\ req[r].baseCurrency = "USD"
        /\ Answer(r).status = 500

NonSuccess(r) == req[r].response # <<>> /\ ~ (req[r].response[1] \in 200..299)

Forwarded(r) ==
    /\ ErrorAnswer(r, req[r].response[1],
                   "Failed to fetch exchange rates: " \o req[r].response[2])
    /\ req[r].data = NotYet

\* C4, as claimed: every rates request whose upstream answer has a status s outside
\* 200-299 is answered with status s and {success:false, error} with the upstream
\* status text in error, the body never parsed for result or rates.
C4_UpstreamStatusForwarded ==
    \A r \in Requests : (Done(r) /\ NonSuccess(r)) => Forwarded(r)

\* C4, amended: that is the answer when the body of the upstream's answer could
\* be read; when reading it fails the request is answered 500 "Internal server
\* error: <message>".  The body is parsed in neither case.
C4_UpstreamStatusForwardedIfBodyRead ==
    \A r \in Requests :
        (Done(r) /\ NonSuccess(r)) =>
            /\ req[r].data = NotYet
            /\ IF req[r].caught = ""
               THEN Forwarded(r)
               ELSE ErrorAnswer(r, 500, "Internal server error: " \o req[r].caught)

C4_Witness ==
    \E r \in Requests :
        /\ Done(r) /\ NonSuccess(r) /\ req[r].response[1] = 404 /\ req[r].caught = ""
        /\ Answer(r).status = 404

Parsed(r) == Done(r) /\ req[r].data # NotYet
Field(r, k) == Get(req[r].data, k)
Rejected(r) == Parsed(r) /\ Field(r, "result") = Str("error")

NotRejected(r) == Parsed(r) /\ Field(r, "result") # Str("error")

NeverSuccessWithoutRates ==
    \A r \in Requests :
        (Done(r) /\ Answer(r).body.success) =>
            /\ "rates" \in DOMAIN Answer(r).body
            /\ Answer(r).body.rates \notin {Undefined, Null}

\* C6, as claimed: when the upstream answers with a success status and a payload
\* not flagged result:"error" that has no rates mapping, the request is answered
\* 500 "Invalid response from exchange rate API"; no answer has success:true and
\* no rates.
C6_MissingRatesRejected ==
    /\ \A r \in Requests :
          (NotRejected(r) /\ Field(r, "rates").t # "object") =>
              ErrorAnswer(r, 500, "Invalid response from exchange rate API")
    /\ NeverSuccessWithoutRates

\* C6, amended: that is the answer when the payload is not null and its rates
\* field is absent or falsy (null, false, 0, ""); a null payload is answered 500
\* "Internal server error: <message>", and a truthy rates value is passed on.
C6_FalsyRatesRejected ==
    /\ \A r \in Requests :
          NotRejected(r) =>
             /\ (req[r].data # Null /\ ~ Truthy(Field(r, "rates"))) =>
                    ErrorAnswer(r, 500, "Invalid response from exchange rate API")
             /\ req[r].data = Null =>
                    ErrorAnswer(r, 500, "Internal server error: " \o TypeErrorMessage)
             /\ Truthy(Field(r, "rates")) =>
                    /\ Answer(r).body.success
                    /\ Answer(r).body.rates = Field(r, "rates")
    /\ NeverSuccessWithoutRates

C6_Witness ==
    \E r \in Requests :
        /\ NotRejected(r)
        /\ req[r].data.t = "object"
        /\ Field(r, "rates") = Undefined
        /\ Field(r, "base_code") = Str("USD")
        /\ Answer(r).status = 500

Reshaped(r) ==
    /\ NotRejected(r)
    /\ req[r].response[1] = 200
    /\ Field(r, "rates").t = "object"

SuccessShape(r) ==
    /\ Len(req[r].sent) = 1
    /\ Answer(r).status = 200
    /\ DOMAIN Answer(r).body = {"success", "base", "date", "rates"}
    /\ Answer(r).body.success = TRUE
    /\ Answer(r).body.rates = Field(r, "rates")
    /\ Truthy(Answer(r).body.date)
    /\ \/ Answer(r).body.date = Field(r, "time_last_update_utc")
       \/ /\ ~ Truthy(Field(r, "time_last_update_utc"))
          /\ \E n \in 0..now : Answer(r).body.date = Str(toISOString(n))

\* C7, as claimed: when the upstream answers 200 with a payload that has a rates
\* mapping and no result:"error", the request is answered 200 with {success:true,
\* base, date, rates}: base the upstream's base_code if present and the requested
\* baseCurrency otherwise, date not empty (time_last_update_utc, else the current
\* time), rates the upstream's mapping unchanged.
C7_RatesReshaped ==
    \A r \in Requests :
        Reshaped(r) =>
            /\ SuccessShape(r)
            /\ Answer(r).body.base =
                  IF Field(r, "base_code") \notin {Undefined, Null}
                  THEN Field(r, "base_code") ELSE Str(req[r].baseCurrency)

\* C7, amended: base is the upstream's base_code if present and not empty
\* (truthy), and the requested baseCurrency otherwise.
C7_RatesReshapedTruthyBase ==
    \A r \in Requests :
        Reshaped(r) =>
            /\ SuccessShape(r)
            /\ Answer(r).body.base =
                  IF Truthy(Field(r, "base_code"))
                  THEN Field(r, "base_code") ELSE Str(req[r].baseCurrency)

C7_Witness ==
    \E r \in Requests :
        /\ Reshaped(r)
        /\ req[r].baseCurrency = "XXX"
        /\ Field(r, "base_code") = Str("USD")
        /\ Field(r, "rates") = SomeRates
        /\ Field(r, "time_last_update_utc") = Undefined
        /\ Answer(r).body.base = Str("USD")

InFlight(r) == req[r].pc \in {"fetch", "text", "json"}

HealthAnswered ==
    health.sent # <<>> =>
        /\ Len(health.sent) = 1
        /\ health.sent[1].status = 200
        /\ health.sent[1].body.success = TRUE

\* C8: in every state, whatever the upstream, the API key and the rates requests
\* in flight, GET /api/health can be served, is answered 200 with success:true,
\* and makes no upstream call.
C8_HealthUnconditional ==
    /\ [](HealthAnswered /\ (health.served < MaxHealth => ENABLED Health))
    /\ [][health' # health =>
             /\ upstreamCalls' = upstreamCalls
             /\ req' = req
             /\ health'.served = health.served + 1]_vars

C8_Witness ==
    /\ health.served > 0
    /\ health.sent[1].status = 200
    /\ \E r \in Requests : InFlight(r)
    /\ \E r \in Requests : Done(r) /\ req[r].caught # ""

Failed(r) == req[r].caught # ""

\* C9: a rates request makes at most one upstream call in its life; when that
\* call fails in transport, or its body cannot be read or parsed, the request
\* ends at once with exactly one response, 500 {success:false, error:"Internal
\* server error: <message>"}; nothing follows a response, no second call either.
C9_NoRetry ==
    /\ [](/\ \A r \in Requests :
               /\ req[r].calls <= 1
               /\ Len(req[r].sent) = IF Done(r) THEN 1 ELSE 0
               /\ Failed(r) =>
                     /\ Done(r)
                     /\ ErrorAnswer(r, 500, "Internal server error: " \o req[r].caught)
          /\ upstreamCalls = Cardinality({r \in Requests : req[r].calls = 1}))
    /\ [][\A r \in Requests :
             /\ Done(r) => req'[r] = req[r]
             /\ (req[r].calls = 1 /\ ~ Done(r)) => req'[r].calls = 1]_vars

C9_Witness ==
    \E r, q \in Requests :
        /\ Done(r) /\ req[r].caught = "network timeout" /\ req[r].response = <<>>
        /\ Done(q) /\ req[q].caught = "invalid json response body"
        /\ upstreamCalls = 2

\* The response without its date.
Undated(response) ==
    IF response.body.success
    THEN [response EXCEPT !.body = [k \in DOMAIN @ \ {"date"} |-> @[k]]]
    ELSE response

SameInputs(r, q) ==
    /\ req[r].baseCurrency = req[q].baseCurrency
    /\ req[r].response = req[q].response
    /\ req[r].data = req[q].data
    /\ req[r].caught = req[q].caught

\* C10: under every interleaving of rates requests a request's response, its date
\* apart, is decided by its own baseCurrency, the configuration, which never
\* changes, and the answer to its own upstream call: two requests that agree on
\* these get the same response, and a step of one request changes nothing of
\* another.
C10_RequestsIndependent ==
    /\ [](\A r, q \in Requests :
             (Done(r) /\ Done(q) /\ SameInputs(r, q)) =>
                 Undated(Answer(r)) = Undated(Answer(q)))
    /\ [][/\ apiKey' = apiKey
          /\ \A r, q \in Requests :
                r # q => (req'[r] = req[r] \/ req'[q] = req[q])]_vars

C10_Witness ==
    \E r, q \in Requests :
        /\ r # q
        /\ Done(r) /\ Done(q) /\ SameInputs(r, q)
        /\ req[r].baseCurrency = "USD"
        /\ Answer(r).body.success /\ Answer(q).body.success
        /\ Answer(r).body.date # Answer(q).body.date
====
